---- MODULE Spec2Model ----
\* A model of src/lib/WikiRequest.ts: the cache-eligibility and request
\* normalisation layer of the worker.  Strings are sequences of one-character
\* strings, so that split, trim, startsWith, slice and the URL path setter are
\* computed character by character.
EXTENDS Integers, Sequences, FiniteSets, TLC

VARIABLES
    inbound,        \* the URL of the Request handed to the constructor
    url,            \* this.url
    req,            \* the URL of this.req
    cookies,        \* this.cookies: cookie name -> value
    env,            \* this.env
    pc,             \* "constructed" | "fetched"
    targetArticle,  \* the local const targetArticle of fetch()
    dispatched,     \* what fetch() handed to the global fetch: request and cf
    clientPrefs     \* the last result of getClientPrefs()

vars == <<inbound, url, req, cookies, env, pc, targetArticle, dispatched, clientPrefs>>

-----------------------------------------------------------------------------
\* Bounds

MaxTitleLen == 4
MaxKeyedTitleLen == 3
MaxCookieLen == 3
MaxPrefixes == 2

-----------------------------------------------------------------------------
\* Strings

RECURSIVE SeqsUpTo(_, _)
SeqsUpTo(S, n) ==
    IF n = 0 THEN {<<>>}
    ELSE LET shorter == SeqsUpTo(S, n - 1)
         IN  shorter \cup {Append(s, c) : s \in {x \in shorter : Len(x) = n - 1}, c \in S}

Range(s) == {s[i] : i \in 1..Len(s)}

\* String.prototype.startsWith
StartsWith(s, p) == Len(p) <= Len(s) /\ SubSeq(s, 1, Len(p)) = p

\* String.prototype.slice(n)
SliceFrom(s, n) == SubSeq(s, n + 1, Len(s))

\* String.prototype.split(sep) for a one-character separator: every part,
\* the empty ones included.
RECURSIVE SplitFrom(_, _, _)
SplitFrom(s, sep, cur) ==
    IF s = <<>> THEN <<cur>>
    ELSE IF Head(s) = sep THEN <<cur>> \o SplitFrom(Tail(s), sep, <<>>)
    ELSE SplitFrom(Tail(s), sep, Append(cur, Head(s)))

Split(s, sep) == SplitFrom(s, sep, <<>>)

\* String.prototype.trim
RECURSIVE TrimStart(_)
TrimStart(s) == IF s # <<>> /\ Head(s) = " " THEN TrimStart(Tail(s)) ELSE s

RECURSIVE TrimEnd(_)
TrimEnd(s) ==
    IF s # <<>> /\ s[Len(s)] = " " THEN TrimEnd(SubSeq(s, 1, Len(s) - 1)) ELSE s

Trim(s) == TrimEnd(TrimStart(s))

RECURSIVE Join(_, _)
Join(parts, sep) ==
    IF parts = <<>> THEN <<>>
    ELSE IF Len(parts) = 1 THEN parts[1]
    ELSE parts[1] \o <<sep>> \o Join(Tail(parts), sep)

-----------------------------------------------------------------------------
\* The URL object (new URL, url.pathname =, url.searchParams)

IndexPhp == <<"/", "i", "n", "d", "e", "x", ".", "p", "h", "p">>
RootPath == <<"/">>
ShortPrefix == <<"/", "w", "/">>

\* The path percent-encode set, restricted to the characters of the model:
\* a space becomes %20, every other character is kept.
RECURSIVE PercentEncodePath(_)
PercentEncodePath(s) ==
    IF s = <<>> THEN <<>>
    ELSE (IF Head(s) = " " THEN <<"%", "2", "0">> ELSE <<Head(s)>>)
         \o PercentEncodePath(Tail(s))

\* The path state of the URL parser: ".." removes the last segment, "." is
\* dropped, and either one as the last segment leaves an empty segment.
RECURSIVE PathSegments(_, _)
PathSegments(segs, path) ==
    IF segs = <<>> THEN path
    ELSE LET seg == Head(segs)
             last == Len(segs) = 1
             shortened == IF path = <<>> THEN path ELSE SubSeq(path, 1, Len(path) - 1)
         IN  IF seg = <<".", ".">>
             THEN PathSegments(Tail(segs), IF last THEN Append(shortened, <<>>) ELSE shortened)
             ELSE IF seg = <<".">>
             THEN PathSegments(Tail(segs), IF last THEN Append(path, <<>>) ELSE path)
             ELSE PathSegments(Tail(segs), Append(path, seg))

\* The pathname a URL ends up with when it is given `value` (which starts
\* with "/"), by the constructor or by the pathname setter.
ParsePath(value) ==
    <<"/">> \o Join(PathSegments(Split(PercentEncodePath(Tail(value)), "/"), <<>>), "/")

Null == [kind |-> "null"]

\* URLSearchParams.get: the value of the first pair with that key, or null
SearchGet(search, key) ==
    IF \E i \in 1..Len(search) : search[i].key = key
    THEN LET i == CHOOSE i \in 1..Len(search) :
                      /\ search[i].key = key
                      /\ \A j \in 1..(i - 1) : search[j].key # key
         IN  [kind |-> "string", value |-> search[i].value]
    ELSE Null

\* URLSearchParams.has
SearchHas(search, key) == \E i \in 1..Len(search) : search[i].key = key

-----------------------------------------------------------------------------
\* WikiRequest

DISQUALIFYING_QUERY_KEYS ==
    <<"action", "veaction", "diff", "curid", "oldid", "debug", "redirect">>

MainPage == <<"M", "a", "i", "n", "_", "P", "a", "g", "e">>

Article(ns, title) == [kind |-> "article", ns |-> ns, title |-> title]

\* extractArticle without its "Invalid title" branch
ExtractArticle_NoInvalidBranch(title) ==
    IF title = Null \/ title.value = <<>>
    THEN Article(<<>>, MainPage)
    ELSE LET parts == Split(title.value, ":")
             ns == parts[1]
         IN  IF Len(parts) < 2 \/ parts[2] = <<>>
             THEN Article(<<>>, ns)
             ELSE Article(ns, parts[2])

\* extractArticle
ExtractArticle(title) ==
    IF title = Null \/ title.value = <<>>
    THEN Article(<<>>, MainPage)
    ELSE LET parts == Split(title.value, ":")
             ns == parts[1]
         IN  IF Len(parts) >= 2 /\ parts[2] = <<>>
             THEN Null                          \* articleTitle === ''
             ELSE IF Len(parts) < 2
             THEN Article(<<>>, ns)             \* articleTitle undefined
             ELSE Article(ns, parts[2])

Str(s) == [kind |-> "string", value |-> s]

\* get targetArticle
TargetArticle(u) ==
    IF u.pathname = IndexPhp
    THEN ExtractArticle(SearchGet(u.search, "title"))
    ELSE IF u.pathname = RootPath
    THEN Article(<<>>, MainPage)
    ELSE IF StartsWith(u.pathname, ShortPrefix)
    THEN ExtractArticle(Str(SliceFrom(u.pathname, 3)))
    ELSE Null

\* isEligibleForCache without the DISQUALIFYING_QUERY_KEYS check
IsEligibleForCache_NoQueryCheck(c, u, e) ==
    IF \E i \in 1..Len(e.PRIVATE_COOKIE_NAMES) :
           /\ e.PRIVATE_COOKIE_NAMES[i] \in DOMAIN c
           /\ c[e.PRIVATE_COOKIE_NAMES[i]] # <<>>
    THEN FALSE
    ELSE LET article == TargetArticle(u)
         IN  IF article = Null
             THEN FALSE
             ELSE article.ns \in Range(e.CACHED_NAMESPACES)

\* isEligibleForCache looking at the first private cookie name only
IsEligibleForCache_FirstCookieOnly(c, u, e) ==
    IF /\ e.PRIVATE_COOKIE_NAMES # <<>>
       /\ e.PRIVATE_COOKIE_NAMES[1] \in DOMAIN c
       /\ c[e.PRIVATE_COOKIE_NAMES[1]] # <<>>
    THEN FALSE
    ELSE LET article == TargetArticle(u)
         IN  IF article = Null
             THEN FALSE
             ELSE IF \E k \in 1..Len(DISQUALIFYING_QUERY_KEYS) :
                         SearchHas(u.search, DISQUALIFYING_QUERY_KEYS[k])
             THEN FALSE
             ELSE article.ns \in Range(e.CACHED_NAMESPACES)

\* get isEligibleForCache
IsEligibleForCache(c, u, e) ==
    IF \E i \in 1..Len(e.PRIVATE_COOKIE_NAMES) :
           /\ e.PRIVATE_COOKIE_NAMES[i] \in DOMAIN c
           /\ c[e.PRIVATE_COOKIE_NAMES[i]] # <<>>
    THEN FALSE
    ELSE LET article == TargetArticle(u)
         IN  IF article = Null
             THEN FALSE
             ELSE IF \E k \in 1..Len(DISQUALIFYING_QUERY_KEYS) :
                         SearchHas(u.search, DISQUALIFYING_QUERY_KEYS[k])
             THEN FALSE
             ELSE IF article.ns \notin Range(e.CACHED_NAMESPACES)
             THEN FALSE
             ELSE TRUE

\* the inner loop of getClientPrefs without its break: every match is pushed
FirstMatch_NoBreak(classNames, classPrefix) ==
    LET hit(j) == StartsWith(classNames[j], classPrefix)
        pick[j \in 0..Len(classNames)] ==
            IF j = 0 THEN <<>>
            ELSE pick[j - 1] \o (IF hit(j)
                                 THEN <<[className |-> classNames[j], classPrefix |-> classPrefix]>>
                                 ELSE <<>>)
    IN  pick[Len(classNames)]

\* getClientPrefs: for each prefix in order, the first class name that
\* starts with it (the inner loop breaks on the first match).
FirstMatch(classNames, classPrefix) ==
    LET hits == {j \in 1..Len(classNames) : StartsWith(classNames[j], classPrefix)}
    IN  IF hits = {} THEN <<>>
        ELSE LET j == CHOOSE j \in hits : \A k \in hits : j <= k
             IN  <<[className |-> classNames[j], classPrefix |-> classPrefix]>>

RECURSIVE PrefsFor(_, _)
PrefsFor(classNames, prefixes) ==
    IF prefixes = <<>> THEN <<>>
    ELSE FirstMatch(classNames, Head(prefixes)) \o PrefsFor(classNames, Tail(prefixes))

ClassNames(value) == LET parts == Split(value, ",") IN [i \in 1..Len(parts) |-> Trim(parts[i])]

GetClientPrefs(c, e) ==
    IF e.CLIENT_PREFS_COOKIE_NAME \notin DOMAIN c \/ c[e.CLIENT_PREFS_COOKIE_NAME] = <<>>
    THEN <<>>
    ELSE PrefsFor(ClassNames(c[e.CLIENT_PREFS_COOKIE_NAME]), e.CLIENT_PREFS_CLASS_PREFIXES)

\* fetch(), the URL rewrite: this.url after the canonicalisation block
CanonicalPath(article) ==
    ShortPrefix \o (IF article.ns # <<>> THEN article.ns \o <<":">> ELSE <<>>) \o article.title

\* the rewrite without the isEligibleForCache guard
FetchUrl_NoEligibilityGuard(c, u, e) ==
    LET article == TargetArticle(u)
    IN  IF article # Null /\ u.pathname = IndexPhp
        THEN [pathname |-> ParsePath(CanonicalPath(article)), search |-> <<>>]
        ELSE u

FetchUrl(c, u, e) ==
    LET article == TargetArticle(u)
    IN  IF IsEligibleForCache(c, u, e) /\ article # Null /\ u.pathname = IndexPhp
        THEN [pathname |-> ParsePath(CanonicalPath(article)), search |-> <<>>]
        ELSE u

Undefined == [kind |-> "undefined"]
DoNotCache == -1

\* fetch(), the cf argument, evaluated on this.url as the rewrite left it
CacheDirective(c, u, e) ==
    [cacheTtlByStatus |->
         IF IsEligibleForCache(c, u, e)
         THEN [kind |-> "ttls",
               ttl |-> ("200" :> e.PAGE_TTL) @@ ("300-399" :> DoNotCache)
                       @@ ("404" :> e.MISSING_PAGE_TTL) @@ ("500-599" :> DoNotCache)]
         ELSE Undefined,
     cacheEverything |-> IsEligibleForCache(c, u, e)]

-----------------------------------------------------------------------------
\* Inputs

TitleChars == {"a", ":", " ", ".", "/"}
Titles == SeqsUpTo(TitleChars, MaxTitleLen)

OtherPath == <<"/", "a", "p", "i">>
ExtraKeys == Range(DISQUALIFYING_QUERY_KEYS) \cup {"uselang"}
Extras == {<<>>} \cup {<<[key |-> k, value |-> <<"1">>]>> : k \in ExtraKeys}

\* A title with the query it comes with: every title up to MaxTitleLen on its
\* own, and every title up to MaxKeyedTitleLen with each extra query key.
TitledQueries ==
    {<<t, <<>>>> : t \in Titles}
    \cup {<<t, x>> : t \in SeqsUpTo(TitleChars, MaxKeyedTitleLen), x \in Extras}

\* new URL(req.url): the path has gone through the URL parser
Urls ==
    {[pathname |-> IndexPhp, search |-> <<[key |-> "title", value |-> q[1]]>> \o q[2]] :
         q \in TitledQueries}
    \cup {[pathname |-> ParsePath(ShortPrefix \o q[1]), search |-> q[2]] : q \in TitledQueries}
    \cup {[pathname |-> p, search |-> x] : p \in {IndexPhp, RootPath, OtherPath}, x \in Extras}

PrivateNames == <<"session", "token">>
PrefsCookie == "mwclientpreferences"

PrivateJars ==
    {<<>>, "session" :> <<>>, "session" :> <<"1">>, "token" :> <<"1">>}

CachedNamespaceConfigs == {<< <<>> >>, << <<>>, <<"a">> >>}

PrefChars == {"p", "q", ",", " "}
PrefValues == SeqsUpTo(PrefChars, MaxCookieLen)
PrefixChoices == {<<"p">>, <<"p", "q">>, <<"q">>}
PrefixConfigs == SeqsUpTo(PrefixChoices, MaxPrefixes)
PrefJars == {<<>>} \cup {PrefsCookie :> v : v \in PrefValues}

Env(cached, prefixes) ==
    [PRIVATE_COOKIE_NAMES |-> PrivateNames,
     CACHED_NAMESPACES |-> cached,
     CLIENT_PREFS_COOKIE_NAME |-> PrefsCookie,
     CLIENT_PREFS_CLASS_PREFIXES |-> prefixes,
     PAGE_TTL |-> 3600,
     MISSING_PAGE_TTL |-> 60]

NotCalled == [kind |-> "notcalled"]
NotDispatched == [kind |-> "none"]

-----------------------------------------------------------------------------
\* The constructor, over the requests of the fetch path
Init ==
    /\ inbound \in Urls
    /\ url = inbound
    /\ req = inbound
    /\ cookies \in PrivateJars
    /\ env \in {Env(cached, <<<<"p">>>>) : cached \in CachedNamespaceConfigs}
    /\ pc = "constructed"
    /\ targetArticle = Null
    /\ dispatched = NotDispatched
    /\ clientPrefs = NotCalled

\* The constructor, over the preference cookies and prefix configurations
InitPrefs ==
    /\ inbound = [pathname |-> RootPath, search |-> <<>>]
    /\ url = inbound
    /\ req = inbound
    /\ cookies \in PrefJars
    /\ env \in {Env(<< <<>> >>, prefixes) : prefixes \in PrefixConfigs}
    /\ pc = "constructed"
    /\ targetArticle = Null
    /\ dispatched = NotDispatched
    /\ clientPrefs = NotCalled

\* fetch(), up to the call of the global fetch
Fetch ==
    /\ pc = "constructed"
    /\ targetArticle' = TargetArticle(url)
    /\ url' = FetchUrl(cookies, url, env)
    /\ req' = IF url' # url THEN url' ELSE req
    /\ dispatched' = [kind |-> "fetch", request |-> req',
                      cf |-> CacheDirective(cookies, url', env)]
    /\ pc' = "fetched"
    /\ UNCHANGED <<inbound, cookies, env, clientPrefs>>

\* getClientPrefs()
CallGetClientPrefs ==
    /\ clientPrefs = NotCalled
    /\ clientPrefs' = [kind |-> "prefs", list |-> GetClientPrefs(cookies, env)]
    /\ UNCHANGED <<inbound, url, req, cookies, env, pc, targetArticle, dispatched>>

Next == Fetch \/ CallGetClientPrefs

\* The fetch path: every request of Init, taken through fetch()
NextFetch == Fetch

Spec == Init /\ [][NextFetch]_vars

\* Preference extraction, with fetch(), over the preference cookies
SpecPrefs == InitPrefs /\ [][Next]_vars

-----------------------------------------------------------------------------
\* Cache eligibility

Eligible(u) == IsEligibleForCache(cookies, u, env)

NoPrivateSignal ==
    \A n \in Range(env.PRIVATE_COOKIE_NAMES) : n \notin DOMAIN cookies \/ cookies[n] = <<>>

NoDisqualifyingKey ==
    \A k \in {"action", "veaction", "diff", "curid", "oldid", "debug", "redirect"} :
        ~SearchHas(url.search, k)

\* C1: isEligibleForCache is true exactly when the four checks pass: no
\* private cookie has a non-empty value, targetArticle is not null, the query
\* has none of the seven disqualifying keys, and the article's namespace is in
\* CACHED_NAMESPACES.
C1_EligibleIffFourChecks ==
    Eligible(url) <=>
        /\ NoPrivateSignal
        /\ TargetArticle(url) # Null
        /\ NoDisqualifyingKey
        /\ TargetArticle(url).ns \in Range(env.CACHED_NAMESPACES)

\* fetch() has read the getter as true for a namespaced article that came in
\* at /index.php with a query key that does not disqualify
C1_Witness ==
    /\ pc = "fetched"
    /\ inbound.pathname = IndexPhp
    /\ Len(inbound.search) = 2
    /\ Eligible(url)
    /\ TargetArticle(url).ns # <<>>
    /\ dispatched.cf.cacheEverything

NoDirective(cf) == cf.cacheTtlByStatus = Undefined /\ cf.cacheEverything = FALSE

\* C2 (as stated): a private cookie that is present, whatever its value,
\* makes the request ineligible, and fetch() sends no caching directive.
C2_PresenceIsIneligible ==
    (\E n \in Range(env.PRIVATE_COOKIE_NAMES) : n \in DOMAIN cookies)
        => /\ ~Eligible(url)
           /\ pc = "fetched" => NoDirective(dispatched.cf)

\* C2 (amended): a private cookie with a non-empty value makes the request
\* ineligible, and fetch() sends no caching directive.
C2_NonEmptyPrivateIsIneligible ==
    (\E n \in Range(env.PRIVATE_COOKIE_NAMES) : n \in DOMAIN cookies /\ cookies[n] # <<>>)
        => /\ ~Eligible(url)
           /\ pc = "fetched" => NoDirective(dispatched.cf)

\* fetch() has run on a request that only its second private cookie disqualifies
C2_Witness ==
    /\ pc = "fetched"
    /\ "token" \in DOMAIN cookies
    /\ cookies["token"] # <<>>
    /\ inbound.pathname = IndexPhp
    /\ inbound.search = <<[key |-> "title", value |-> <<"a">>]>>

-----------------------------------------------------------------------------
\* fetch()

\* C3: a request that is not eligible when fetch() starts is dispatched with
\* the inbound path and query; this.url and this.req are left unchanged.
C3_IneligibleNotCanonicalized ==
    (pc = "fetched" /\ ~Eligible(inbound))
        => url = inbound /\ req = inbound /\ dispatched.request = inbound

\* fetch() has run on an /index.php request whose article resolves and that a
\* disqualifying query key makes ineligible
C3_Witness ==
    /\ pc = "fetched"
    /\ inbound.pathname = IndexPhp
    /\ TargetArticle(inbound) # Null
    /\ SearchHas(inbound.search, "action")
    /\ NoPrivateSignal
    /\ ~Eligible(inbound)

Canonicalized ==
    /\ pc = "fetched"
    /\ Eligible(inbound)
    /\ inbound.pathname = IndexPhp
    /\ targetArticle # Null

\* C4: for an eligible request at /index.php whose article resolves, the
\* rewritten URL resolves to the same Article as the original URL.
C4_RoundTrip == Canonicalized => TargetArticle(url) = TargetArticle(inbound)

\* The title split as the claim states it: on the first ":" only.
SplitOnFirstColon(t) ==
    IF ":" \notin Range(t) THEN Article(<<>>, t)
    ELSE LET i == CHOOSE i \in 1..Len(t) : t[i] = ":" /\ \A j \in 1..(i - 1) : t[j] # ":"
             right == SubSeq(t, i + 1, Len(t))
         IN  IF right = <<>> THEN Null ELSE Article(SubSeq(t, 1, i - 1), right)

\* C5: for every title string (here: every non-empty title parameter of
\* /index.php), extractArticle returns the text before the first ":" as ns and
\* all the text after it as title, null when the text after the first ":" is
\* empty, and {ns: "", title: the whole string} when there is no ":".
C5_SplitOnFirstColonOnly ==
    (/\ pc = "fetched"
     /\ inbound.pathname = IndexPhp
     /\ SearchGet(inbound.search, "title") # Null
     /\ SearchGet(inbound.search, "title").value # <<>>)
        => targetArticle = SplitOnFirstColon(SearchGet(inbound.search, "title").value)

Ttls ==
    [kind |-> "ttls",
     ttl |-> ("200" :> env.PAGE_TTL) @@ ("300-399" :> DoNotCache)
             @@ ("404" :> env.MISSING_PAGE_TTL) @@ ("500-599" :> DoNotCache)]

\* C8: the directive handed to the origin fetch is decided by the request's
\* eligibility: an eligible request gets 200 -> PAGE_TTL, 404 ->
\* MISSING_PAGE_TTL, 300-399 and 500-599 -> -1 with cacheEverything true; an
\* ineligible one gets cacheTtlByStatus undefined and cacheEverything false.
C8_DirectiveByEligibility ==
    pc = "fetched" =>
        IF Eligible(inbound)
        THEN dispatched.cf = [cacheTtlByStatus |-> Ttls, cacheEverything |-> TRUE]
        ELSE dispatched.cf = [cacheTtlByStatus |-> Undefined, cacheEverything |-> FALSE]

\* C9: within one fetch() the verdict read before the rewrite equals the
\* verdicts read after it, so every canonicalized request is dispatched with
\* the caching directive.
C9_SameVerdictAcrossRewrite ==
    pc = "fetched" =>
        /\ dispatched.cf.cacheEverything = Eligible(inbound)
        /\ (dispatched.cf.cacheTtlByStatus # Undefined) = Eligible(inbound)
        /\ Canonicalized => dispatched.cf.cacheEverything

\* C10: targetArticle is null or an Article with both fields set and a
\* non-empty title, for every URL the object can hold.
C10_ArticleValid ==
    LET a == TargetArticle(url)
    IN  \/ a = Null
        \/ /\ DOMAIN a = {"kind", "ns", "title"}
           /\ a.kind = "article"
           /\ a.ns \in Seq(TitleChars \cup {"%", "2", "0"})
           /\ a.title # <<>>

\* the bare path /w/, reached by the rewrite of an /index.php request
C10_Witness ==
    /\ pc = "fetched"
    /\ inbound.pathname = IndexPhp
    /\ url.pathname = ShortPrefix
    /\ TargetArticle(url).title = MainPage

-----------------------------------------------------------------------------
\* getClientPrefs()

PrefList == clientPrefs.list

\* C6: a className appears at most once in the list getClientPrefs returns.
C6_ClassNameAtMostOnce ==
    clientPrefs.kind = "prefs" =>
        \A i, j \in 1..Len(PrefList) :
            i # j => PrefList[i].className # PrefList[j].className

\* The k-th comma-separated token of v, without the spaces around it.
Commas(v) == {i \in 1..Len(v) : v[i] = ","}
NthSmallest(S, k) == CHOOSE x \in S : Cardinality({y \in S : y <= x}) = k
TokenAt(v, k) ==
    LET from == IF k = 1 THEN 1 ELSE NthSmallest(Commas(v), k - 1) + 1
        to == IF k = Cardinality(Commas(v)) + 1 THEN Len(v) ELSE NthSmallest(Commas(v), k) - 1
        inked == {i \in from..to : v[i] # " "}
    IN  IF inked = {} THEN <<>>
        ELSE SubSeq(v, NthSmallest(inked, 1), NthSmallest(inked, Cardinality(inked)))

====
